---- MODULE Spec2Model ----
(***************************************************************************)
(* Model of the cross-platform autostart subsystem of the RSS ticker:      *)
(* AutostartManager (src/src/store-manager.js, class AutostartManager and  *)
(* AutostartError) and the settings window that drives it (src/settings.js *)
(* through the IPC handlers of the main process).                          *)
(*                                                                         *)
(* JavaScript runs one task at a time: a call executes synchronously until *)
(* it awaits real I/O (an fs promise) or a timer.  `running` names the     *)
(* call that owns the thread; a call waiting at an await point resumes     *)
(* only when the thread is free.  Every await point of the manager is a    *)
(* value of pc.                                                            *)
(***************************************************************************)
EXTENDS Naturals, Sequences, FiniteSets, TLC

\* ------------------------------------------------------------------ bounds
MaxCalls == 1
MaxFaults == 2
MaxErrors == 1
MaxFailures == 2
MaxRequests == 2

\* _retryVerification / _retryWithBackoff: maxAttempts
maxAttempts == 3

\* --------------------------------------------------------------- constants
Platforms == {"darwin", "win32", "linux", "freebsd"}

supportedPlatforms == {"darwin", "win32", "linux"}

LoginItemPlatforms == {"darwin", "win32"}

NoError == "null"

ErrorCodes ==
  {"PERMISSION_DENIED", "UNSUPPORTED_PLATFORM", "ELECTRON_API_UNAVAILABLE",
   "LINUX_DIR_CREATE_FAILED", "LINUX_FILE_WRITE_FAILED", "VERIFICATION_FAILED",
   "STATUS_CHECK_FAILED", "TOGGLE_FAILED", "PLATFORM_CHECK_FAILED",
   "TEMPORARY_FAILURE", "ACCESS_DENIED", "UNEXPECTED_ERROR",
   "MACOS_LOGIN_ITEM_FAILED", "REGISTRY_ACCESS_FAILED",
   "LINUX_DESKTOP_CHECK_FAILED", "LINUX_FILE_REMOVE_FAILED",
   "LINUX_PERMISSION_SET_FAILED", "LINUX_UNEXPECTED_ERROR",
   "LOGIN_ITEM_CHECK_FAILED", "LOGIN_ITEM_SET_FAILED", "DISK_FULL",
   "FILE_IN_USE"}

\* AutostartError.isRecoverable
isRecoverable(code) ==
  code \in {"PERMISSION_DENIED", "LINUX_DIR_CREATE_FAILED",
            "LINUX_FILE_WRITE_FAILED", "VERIFICATION_FAILED",
            "TEMPORARY_FAILURE"}

\* AutostartError.requiresUserAction
requiresUserAction(code) ==
  code \in {"PERMISSION_DENIED", "UNSUPPORTED_PLATFORM", "ACCESS_DENIED"}

\* Words an OS error message may contain that _setElectronLoginItems looks for.
MessageWords == {"permission", "access", "registry", "login"}

\* POSIX error codes the filesystem layer may answer with.
MkdirFaults == {"EEXIST", "EACCES", "EPERM", "ENOSPC", "EIO"}

WriteFaults == {"EACCES", "EPERM", "ENOSPC", "EIO"}

UnlinkFaults == {"EACCES", "EPERM", "EBUSY", "EIO"}

\* The sub-steps of _attemptLinuxRecovery that can be pushed to `successful`.
RecoverySteps == {"home", "config", "autostart", "perm", "write"}

Ops == {"enable", "disable", "toggle", "isEnabled", "isPlatformSupported"}

\* error.details.operation, which _retryWithBackoff looks at
RetryOps == {"none", "enable", "disable"}

\* Positions at which the call owns the thread: synchronous code follows, or
\* ("done") the caller's continuation is about to read the outcome.
SyncPcs == {"probe", "read", "set", "catch", "done"}

\* The slot of a status query made while an operation is in flight; the
\* callers' own calls use the slots 1..MaxCalls.
Query == MaxCalls + 1

Calls == 1..Query

VARIABLES
  platform,      \* process.platform, read once by the constructor
  apiAvailable,  \* app.setLoginItemSettings / getLoginItemSettings are functions
  openAtLogin,   \* the OS login item (darwin, win32)
  desktopFile,   \* ~/.config/autostart/rss-news-ticker.desktop exists (linux)
  lastError,     \* AutostartManager.lastError: an error code or NoError
  errorStats,    \* AutostartManager.errorStats
  calls,         \* the manager calls in flight, one record per slot
  running,       \* the call that owns the thread, 0 when the thread is free
  faults,        \* OS-layer failures injected so far
  lastClean,     \* the last state-changing call that completed undisturbed
  ui,            \* the settings window: the autostart checkbox
  requests       \* IPC requests of the settings window, oldest first

vars == <<platform, apiAvailable, openAtLogin, desktopFile, lastError,
          errorStats, calls, running, faults, lastClean, ui, requests>>

env == <<platform, apiAvailable>>

host == <<ui, requests>>

\* AutostartManager.constructor: this.errorStats
NoErrorStats ==
  [totalErrors |-> 0,
   errorsByCode |-> [k \in ErrorCodes |-> 0],
   recoveryAttempts |-> 0,
   successfulRecoveries |-> 0]

\* ----------------------------------------------------------- call records
IdleCall ==
  [op |-> "none", origin |-> "direct", phase |-> "none", pc |-> "idle",
   want |-> FALSE, err |-> NoError, outcome |-> "none", result |-> FALSE,
   thrown |-> NoError, errAtEnd |-> NoError, verified |-> "none",
   trace |-> <<>>, clean |-> TRUE, overlap |-> FALSE,
   startState |-> FALSE, after |-> "none", readErr |-> FALSE,
   mainProbe |-> "none", writeFailed |-> FALSE, statsBefore |-> NoErrorStats,
   arg |-> NoError, retryOp |-> "none", attempts |-> 0,
   probeFailed |-> FALSE, method |-> "none", faulted |-> FALSE,
   rejected |-> [syscall |-> "none", code |-> "none"],
   backoffTimes |-> <<>>, succeeded |-> <<>>]

Active(c) == calls[c].pc \notin {"idle", "done"}

Finished(c) == calls[c].pc = "done"

\* The registration artifact of the running platform (AutostartState).
AutostartState ==
  IF platform \in LoginItemPlatforms THEN openAtLogin
  ELSE IF platform = "linux" THEN desktopFile
  ELSE FALSE

Log(call, event) == [call EXCEPT !.trace = Append(@, event)]

\* A call is clean while the OS layer has done what it was asked and no other
\* call has run beside it; what a disturbed call started from is not kept.
Disturbed(call) ==
  [call EXCEPT !.clean = FALSE, !.startState = FALSE, !.after = "other"]

Fault(call) == [Disturbed(call) EXCEPT !.faulted = TRUE]

\* A filesystem promise is rejected: errno is the error.code the catch block
\* of the adapter reads.
Rejected(call, syscall, errno) ==
  [call EXCEPT !.rejected = [syscall |-> syscall, code |-> errno]]

CanFault == faults < MaxFaults

\* ------------------------------------------------------------- statistics
\* The total is counted but not the count of the error's code.
_recordErrorStats_TotalOnly(stats, code) ==
  [stats EXCEPT !.totalErrors = @ + 1]

\* AutostartManager._recordErrorStats
_recordErrorStats(stats, code) ==
  [stats EXCEPT !.totalErrors = @ + 1,
                !.errorsByCode = [@ EXCEPT ![code] = @ + 1]]

\* A success is counted without the attempt that led to it.
_recordRecoveryStats_SuccessOnly(stats, successful) ==
  [stats EXCEPT !.recoveryAttempts = IF successful THEN @ ELSE @ + 1,
                !.successfulRecoveries = IF successful THEN @ + 1 ELSE @]

\* AutostartManager._recordRecoveryStats
_recordRecoveryStats(stats, successful) ==
  [stats EXCEPT !.recoveryAttempts = @ + 1,
                !.successfulRecoveries = IF successful THEN @ + 1 ELSE @]

\* ---------------------------------------------------- error classification
\* AutostartManager._setElectronLoginItems: the code given to a thrown OS error
LoginItemErrorCode(plat, words) ==
  IF "permission" \in words THEN "PERMISSION_DENIED"
  ELSE IF "access" \in words THEN "ACCESS_DENIED"
  ELSE IF plat = "win32" /\ "registry" \in words THEN "REGISTRY_ACCESS_FAILED"
  ELSE IF plat = "darwin" /\ "login" \in words THEN "MACOS_LOGIN_ITEM_FAILED"
  ELSE "LOGIN_ITEM_SET_FAILED"

\* AutostartManager._createLinuxDesktopFile: mkdir failure
MkdirErrorCode(errno) ==
  IF errno \in {"EACCES", "EPERM"} THEN "PERMISSION_DENIED"
  ELSE IF errno = "ENOSPC" THEN "DISK_FULL"
  ELSE "LINUX_DIR_CREATE_FAILED"

\* AutostartManager._createLinuxDesktopFile: writeFile failure
WriteErrorCode(errno) ==
  IF errno \in {"EACCES", "EPERM"} THEN "PERMISSION_DENIED"
  ELSE IF errno = "ENOSPC" THEN "DISK_FULL"
  ELSE "LINUX_FILE_WRITE_FAILED"

\* A busy file is reported as a plain removal failure.
UnlinkErrorCode_NoBusy(errno) ==
  IF errno \in {"EACCES", "EPERM"} THEN "PERMISSION_DENIED"
  ELSE "LINUX_FILE_REMOVE_FAILED"

\* AutostartManager._removeLinuxDesktopFile: unlink failure other than ENOENT
UnlinkErrorCode(errno) ==
  IF errno \in {"EACCES", "EPERM"} THEN "PERMISSION_DENIED"
  ELSE IF errno = "EBUSY" THEN "FILE_IN_USE"
  ELSE "LINUX_FILE_REMOVE_FAILED"

\* AutostartManager.attemptRecovery: the switch on error.code
RecoveryAction(code) ==
  CASE code = "PERMISSION_DENIED" -> "permission_guidance"
    [] code = "UNSUPPORTED_PLATFORM" -> "fallback_instructions"
    [] code \in {"LINUX_DIR_CREATE_FAILED", "LINUX_FILE_WRITE_FAILED"} -> "linux_recovery"
    [] code = "VERIFICATION_FAILED" -> "verification_retry"
    [] code = "TEMPORARY_FAILURE" -> "retry_operation"
    [] OTHER -> "general_guidance"

\* AutostartManager.attemptRecovery: what recoveryResult.message holds when
\* the switch has run. _generatePermissionGuidance, executeFallback and
\* _generateGeneralGuidance build their instructions from literals and do
\* not fail.
RecoveryMessage(code) ==
  CASE RecoveryAction(code) = "permission_guidance" -> "instructions"
    [] RecoveryAction(code) = "fallback_instructions" -> "fallback"
    [] RecoveryAction(code) = "general_guidance" -> "guidance"
    [] RecoveryAction(code) = "linux_recovery" -> "recoverySteps"
    [] OTHER -> "retryResult"

\* The default branch returns null where the method throws.
getPlatformMethod_NullDefault(plat) ==
  CASE plat = "darwin" -> [returns |-> "loginItems", throws |-> NoError]
    [] plat = "win32" -> [returns |-> "registry", throws |-> NoError]
    [] plat = "linux" -> [returns |-> "desktop", throws |-> NoError]
    [] OTHER -> [returns |-> "none", throws |-> NoError]

\* AutostartManager.getPlatformMethod: the value returned or the code thrown
getPlatformMethod(plat) ==
  CASE plat = "darwin" -> [returns |-> "loginItems", throws |-> NoError]
    [] plat = "win32" -> [returns |-> "registry", throws |-> NoError]
    [] plat = "linux" -> [returns |-> "desktop", throws |-> NoError]
    [] OTHER -> [returns |-> "none", throws |-> "UNSUPPORTED_PLATFORM"]

\* The settings window has shown no result of a set-autostart request since
\* it last changed.
NoResult ==
  [origin |-> "none", reply |-> "none", arg |-> FALSE, code |-> NoError,
   detail |-> "none"]

\* -------------------------------------------------------------------- Init
Init ==
  /\ platform \in Platforms
  /\ apiAvailable \in (IF platform \in LoginItemPlatforms THEN BOOLEAN ELSE {TRUE})
  /\ openAtLogin \in (IF platform \in LoginItemPlatforms THEN BOOLEAN ELSE {FALSE})
  /\ desktopFile \in (IF platform = "linux" THEN BOOLEAN ELSE {FALSE})
  /\ lastError = NoError
  /\ errorStats = NoErrorStats
  /\ calls = [c \in Calls |-> IdleCall]
  /\ running = 0
  /\ faults = 0
  /\ lastClean = "none"
  /\ ui = [open |-> FALSE, checked |-> FALSE, disabled |-> FALSE,
           notice |-> "none", last |-> NoResult]
  /\ requests = <<>>

\* ------------------------------------------------------------ control flow
\* An effect is the call record after a step together with the new lastError.
Effect(call, le) == [call |-> call, lastError |-> le]

\* The call ends: the outcome goes to the caller of the public method.
End(call, outcome, result, thrown, le) ==
  Effect([call EXCEPT !.pc = "done", !.outcome = outcome, !.result = result,
                      !.thrown = thrown, !.errAtEnd = le], le)

\* attemptRecovery returns recoveryResult to its caller.
RecoveryResult(call, success, le) ==
  End([call EXCEPT !.phase = "recovery"], "returned", success, NoError, le)

\* _retryVerification: waitTime of attempt i (counted from 0), milliseconds
waitTime(i) ==
  IF 1000 * 2^i < 5000 THEN 1000 * 2^i ELSE 5000

\* _retryWithBackoff: backoffTime of attempt i (counted from 0), milliseconds
backoffTime(i) ==
  IF 1000 * 2^i < 8000 THEN 1000 * 2^i ELSE 8000

\* The retry loop notes how the attempt it awaited ended.
Attempted(call, succeeded) ==
  [call EXCEPT !.succeeded = Append(@, succeeded)]

\* The error of the last failed attempt escapes from attemptRecovery.
RetryReturns_Escapes(call, succeeded, le) ==
  IF succeeded THEN RecoveryResult(Attempted(call, TRUE), TRUE, le)
  ELSE IF call.attempts < maxAttempts
  THEN Effect([Attempted(call, FALSE) EXCEPT !.phase = "recovery",
                                             !.pc = "backoff"], le)
  ELSE End([Attempted(call, FALSE) EXCEPT !.phase = "recovery"], "threw",
           FALSE, call.err, le)

\* The loop goes on to a fourth attempt.
RetryReturns_OneMore(call, succeeded, le) ==
  IF succeeded THEN RecoveryResult(Attempted(call, TRUE), TRUE, le)
  ELSE IF call.attempts <= maxAttempts
  THEN Effect([Attempted(call, FALSE) EXCEPT !.phase = "recovery",
                                             !.pc = "backoff"], le)
  ELSE RecoveryResult(Attempted(call, FALSE), FALSE, le)

\* _retryVerification / _retryWithBackoff: the operation of one attempt has
\* returned (the loop breaks with success) or thrown (caught; next attempt
\* while i < maxAttempts)
RetryReturns(call, succeeded, le) ==
  IF succeeded THEN RecoveryResult(Attempted(call, TRUE), TRUE, le)
  ELSE IF call.attempts < maxAttempts
  THEN Effect([Attempted(call, FALSE) EXCEPT !.phase = "recovery",
                                             !.pc = "backoff"], le)
  ELSE RecoveryResult(Attempted(call, FALSE), FALSE, le)

\* `return` or `throw` of a public method: to the caller, or to the retry
\* loop of attemptRecovery that called the method.
Finish(call, outcome, result, thrown, le) ==
  IF call.op = "attemptRecovery" /\ call.phase # "recovery"
  THEN RetryReturns(call, outcome = "returned", le)
  ELSE End(call, outcome, result, thrown, le)

\* An AutostartError is thrown inside the try block of enable()/disable().
Throw(call, code, le) == Effect([call EXCEPT !.pc = "catch", !.err = code], le)

\* The adapter throws: it stores its AutostartError in lastError and throws it.
ThrowAdapter(call, code) ==
  Throw([call EXCEPT !.writeFailed = TRUE], code, code)

\* A verification mismatch is thrown instead of being kept as a warning.
VerificationResult_Throws(call, verified, le) ==
  IF verified
  THEN Finish([call EXCEPT !.verified = "pass"], "returned",
              IF call.op = "toggle" THEN call.want ELSE FALSE, NoError, le)
  ELSE Throw([call EXCEPT !.verified = "fail"],
             "VERIFICATION_FAILED", "VERIFICATION_FAILED")

\* AutostartManager.enable / disable: the check that follows _verifyAutostartSetting
VerificationResult(call, verified, le) ==
  Finish([call EXCEPT !.verified = IF verified THEN "pass" ELSE "fail"],
         "returned",
         IF call.op = "toggle" THEN call.want ELSE FALSE,
         NoError,
         IF verified THEN le ELSE "VERIFICATION_FAILED")

\* AutostartManager._verifyAutostartSetting: actualState === expectedState
_verifyAutostartSetting(call, actualState, le) ==
  VerificationResult(Log(call, "verifyRead"), actualState = call.want, le)

\* toggle() asks for the state it found instead of its negation.
IsEnabledReturns_SameState(call, r, le) ==
  CASE call.phase = "status" -> Finish(call, "returned", r, NoError, le)
    [] call.phase = "pre" ->
         Effect([call EXCEPT !.phase = "main", !.want = r, !.pc = "probe"],
                NoError)
    [] call.phase = "verify" -> _verifyAutostartSetting(call, r, le)

\* What the caller of isEnabled() does with its answer r.
IsEnabledReturns(call, r, le) ==
  CASE call.phase = "status" -> Finish(call, "returned", r, NoError, le)
    [] call.phase = "pre" ->
         \* toggle(): enable() if currently false, else disable(); either
         \* starts with clearError()
         Effect([call EXCEPT !.phase = "main", !.want = ~r, !.pc = "probe"],
                NoError)
    [] call.phase = "verify" -> _verifyAutostartSetting(call, r, le)

\* enable()/disable() go on to the adapter whatever the probe answered.
ProbeReturns_Unchecked(call, supported, le) ==
  CASE call.phase = "support" -> Finish(call, "returned", supported, NoError, le)
    [] call.phase \in {"status", "pre", "verify"} ->
         IF supported
         THEN Effect([call EXCEPT !.pc = IF platform \in LoginItemPlatforms
                                         THEN "read" ELSE "accessFile"], le)
         ELSE IsEnabledReturns([call EXCEPT !.probeFailed = TRUE], FALSE, le)
    [] call.phase = "main" ->
         Effect([call EXCEPT !.mainProbe = IF supported THEN "ok" ELSE "failed",
                             !.pc = IF platform \in LoginItemPlatforms
                                    THEN "set"
                                    ELSE IF call.want THEN "mkdir"
                                    ELSE "unlink"], le)

\* What the caller of isPlatformSupported() does with its answer.
ProbeReturns(call, supported, le) ==
  CASE call.phase = "support" -> Finish(call, "returned", supported, NoError, le)
    [] call.phase \in {"status", "pre", "verify"} ->
         IF supported
         THEN Effect([call EXCEPT !.pc = IF platform \in LoginItemPlatforms
                                         THEN "read" ELSE "accessFile"], le)
         ELSE IsEnabledReturns([call EXCEPT !.probeFailed = TRUE], FALSE, le)
    [] call.phase = "main" ->
         \* enable()/disable(): if (!isSupported) throw this.lastError || ...
         IF supported
         THEN Effect([call EXCEPT !.mainProbe = "ok",
                                  !.pc = IF platform \in LoginItemPlatforms
                                         THEN "set"
                                         ELSE IF call.want THEN "mkdir"
                                         ELSE "unlink"], le)
         ELSE Throw([call EXCEPT !.mainProbe = "failed"],
                    IF le # NoError THEN le ELSE "UNSUPPORTED_PLATFORM", le)

\* The summary of a finished call kept for the next one: a state-changing
\* call that returned, with no OS failure and no other call in flight.
CleanAfter(call) ==
  IF call.op \in {"isEnabled", "isPlatformSupported"} THEN lastClean
  ELSE IF /\ call.outcome = "returned"
          /\ call.clean
       THEN call.op
       ELSE "other"

\* The common end of every step of call c.
Commit(c, eff) ==
  /\ calls' = [calls EXCEPT ![c] = eff.call]
  /\ lastError' = eff.lastError
  /\ running' = IF eff.call.pc \in SyncPcs THEN c ELSE 0
  /\ lastClean' = IF eff.call.pc = "done" THEN CleanAfter(eff.call) ELSE lastClean

InitialPhase(op) ==
  CASE op \in {"enable", "disable"} -> "main"
    [] op = "toggle" -> "pre"
    [] op = "isEnabled" -> "status"
    [] op = "isPlatformSupported" -> "support"

\* A public method of the manager is called: clearError(), then the probe.
Invoke(c, op, origin) ==
  /\ calls[c].pc = "idle"
  /\ c <= MaxCalls => \A d \in Calls : d < c => calls[d].pc # "idle"
  /\ running = 0
  /\ LET busy == \E d \in Calls : Active(d)
         new == [IdleCall EXCEPT !.op = op, !.origin = origin,
                                 !.phase = InitialPhase(op), !.pc = "probe",
                                 !.want = (op = "enable"),
                                 !.startState = AutostartState,
                                 !.after = lastClean,
                                 !.statsBefore = errorStats]
         \* what an overlapped call started from is not kept
         Overlapped(call) == [Disturbed(call) EXCEPT !.overlap = TRUE,
                                                     !.statsBefore = NoErrorStats]
     IN /\ calls' = [d \in Calls |->
                       IF d = c THEN IF busy THEN Overlapped(new) ELSE new
                       ELSE IF Active(d) THEN Overlapped(calls[d])
                       ELSE calls[d]]
        /\ lastClean' = IF busy THEN "other" ELSE lastClean
  /\ lastError' = NoError
  /\ running' = c
  /\ UNCHANGED <<env, openAtLogin, desktopFile, errorStats, faults>>

------------------------------------------------------------------------------
\* AutostartManager.isPlatformSupported, up to its first await
isPlatformSupported(c) ==
  /\ running = c
  /\ calls[c].pc = "probe"
  /\ LET call == Log(calls[c], "probe") IN
       Commit(c,
         IF platform \notin supportedPlatforms
         THEN ProbeReturns(call, FALSE, "UNSUPPORTED_PLATFORM")
         ELSE IF platform \in LoginItemPlatforms
         THEN IF apiAvailable
              THEN ProbeReturns(call, TRUE, NoError)
              ELSE ProbeReturns(call, FALSE, "ELECTRON_API_UNAVAILABLE")
         ELSE Effect([call EXCEPT !.pc = "accessHome"], NoError))
  /\ UNCHANGED <<env, openAtLogin, desktopFile, errorStats, faults, host>>

\* isPlatformSupported on linux: fs.access(homeDir, W_OK) settles
AccessHome(c) ==
  /\ running = 0
  /\ calls[c].pc = "accessHome"
  /\ \/ /\ Commit(c, Effect([calls[c] EXCEPT !.pc = "accessConfig"], lastError))
        /\ UNCHANGED faults
     \/ /\ CanFault
        /\ faults' = faults + 1
        /\ Commit(c, ProbeReturns(Fault(calls[c]), FALSE, "PERMISSION_DENIED"))
  /\ UNCHANGED <<env, openAtLogin, desktopFile, errorStats, host>>

\* The probe tests the directory by writing the desktop file into it.
AccessConfig_Creates(c) ==
  /\ running = 0
  /\ calls[c].pc = "accessConfig"
  /\ \/ /\ Commit(c, ProbeReturns(calls[c], TRUE, lastError))
        /\ desktopFile' = TRUE
     \/ /\ Commit(c, Effect([calls[c] EXCEPT !.pc = "accessHome2"], lastError))
        /\ UNCHANGED desktopFile
  /\ UNCHANGED <<env, openAtLogin, errorStats, faults, host>>

\* isPlatformSupported on linux: fs.access(configDir, W_OK) settles
AccessConfig(c) ==
  /\ running = 0
  /\ calls[c].pc = "accessConfig"
  /\ \/ Commit(c, ProbeReturns(calls[c], TRUE, lastError))
     \/ Commit(c, Effect([calls[c] EXCEPT !.pc = "accessHome2"], lastError))
  /\ UNCHANGED <<env, openAtLogin, desktopFile, errorStats, faults, host>>

\* isPlatformSupported on linux: the second fs.access(homeDir, W_OK) settles
AccessHomeAgain(c) ==
  /\ running = 0
  /\ calls[c].pc = "accessHome2"
  /\ \/ /\ Commit(c, ProbeReturns(calls[c], TRUE, lastError))
        /\ UNCHANGED faults
     \/ /\ CanFault
        /\ faults' = faults + 1
        /\ Commit(c, ProbeReturns(Fault(calls[c]), FALSE, "PERMISSION_DENIED"))
  /\ UNCHANGED <<env, openAtLogin, desktopFile, errorStats, host>>

------------------------------------------------------------------------------
\* The catch block answers false without storing the error.
_checkElectronLoginItems_Silent(threw, value) ==
  IF threw THEN [ret |-> FALSE, err |-> NoError]
  ELSE [ret |-> value, err |-> NoError]

\* AutostartManager._checkElectronLoginItems: [ret, err]; err = NoError leaves
\* lastError as it is
_checkElectronLoginItems(threw, value) ==
  IF threw THEN [ret |-> FALSE, err |-> "LOGIN_ITEM_CHECK_FAILED"]
  ELSE [ret |-> value, err |-> NoError]

\* The desktop file is reported absent although fs.access found it.
_checkLinuxDesktopFile_Absent(res) ==
  IF res \in {"ok", "ENOENT"} THEN [ret |-> FALSE, err |-> NoError]
  ELSE [ret |-> FALSE, err |-> "LINUX_DESKTOP_CHECK_FAILED"]

\* AutostartManager._checkLinuxDesktopFile: res is "ok" or the errno of fs.access
_checkLinuxDesktopFile(res) ==
  IF res = "ok" THEN [ret |-> TRUE, err |-> NoError]
  ELSE IF res = "ENOENT" THEN [ret |-> FALSE, err |-> NoError]
  ELSE [ret |-> FALSE, err |-> "LINUX_DESKTOP_CHECK_FAILED"]

\* isEnabled() hands the adapter's answer to its caller.
AdapterAnswer(c, ans, failed) ==
  LET call0 == Log(calls[c], "read")
      call == IF failed THEN [Fault(call0) EXCEPT !.readErr = TRUE] ELSE call0
  IN Commit(c, IsEnabledReturns(call, ans.ret,
                                IF ans.err # NoError THEN ans.err ELSE lastError))

\* isEnabled on darwin/win32: app.getLoginItemSettings()
CheckElectronLoginItems(c) ==
  /\ running = c
  /\ calls[c].pc = "read"
  /\ \/ /\ AdapterAnswer(c, _checkElectronLoginItems(FALSE, openAtLogin), FALSE)
        /\ UNCHANGED faults
     \/ /\ CanFault
        /\ faults' = faults + 1
        /\ AdapterAnswer(c, _checkElectronLoginItems(TRUE, openAtLogin), TRUE)
  /\ UNCHANGED <<env, openAtLogin, desktopFile, errorStats, host>>

\* isEnabled on linux: fs.access(desktopFilePath) settles
CheckLinuxDesktopFile(c) ==
  /\ running = 0
  /\ calls[c].pc = "accessFile"
  /\ \/ /\ AdapterAnswer(c, _checkLinuxDesktopFile(IF desktopFile THEN "ok" ELSE "ENOENT"), FALSE)
        /\ UNCHANGED faults
     \/ /\ CanFault
        /\ faults' = faults + 1
        /\ AdapterAnswer(c, _checkLinuxDesktopFile("EACCES"), TRUE)
  /\ UNCHANGED <<env, openAtLogin, desktopFile, errorStats, host>>

------------------------------------------------------------------------------
\* AutostartManager._setElectronLoginItems(enabled): app.setLoginItemSettings.
\* The OS applies the setting, or returns without applying it, or throws an
\* error whose message holds the given words.
_setElectronLoginItems(c) ==
  /\ running = c
  /\ calls[c].pc = "set"
  /\ LET call == Log(calls[c], "write") IN
     \/ /\ openAtLogin' = call.want
        /\ Commit(c, Effect([call EXCEPT !.pc = "delay"], lastError))
        /\ UNCHANGED faults
     \/ /\ CanFault
        /\ faults' = faults + 1
        /\ UNCHANGED openAtLogin
        /\ \/ Commit(c, Effect([Fault(call) EXCEPT !.pc = "delay"], lastError))
           \/ \E words \in SUBSET MessageWords :
                LET code == LoginItemErrorCode(platform, words) IN
                  Commit(c, ThrowAdapter(Fault(call), code))
  /\ UNCHANGED <<env, desktopFile, errorStats, host>>

\* AutostartManager._createLinuxDesktopFile: fs.mkdir(autostartDir) settles
Mkdir(c) ==
  /\ running = 0
  /\ calls[c].pc = "mkdir"
  /\ LET call == Log(calls[c], "write") IN
     \/ /\ Commit(c, Effect([call EXCEPT !.pc = "writeFile"], lastError))
        /\ UNCHANGED faults
     \/ /\ CanFault
        /\ faults' = faults + 1
        /\ \E errno \in MkdirFaults :
             IF errno = "EEXIST"
             THEN Commit(c, Effect([Fault(call) EXCEPT !.pc = "writeFile"], lastError))
             ELSE Commit(c, ThrowAdapter(Rejected(Fault(call), "mkdir", errno),
                                        MkdirErrorCode(errno)))
  /\ UNCHANGED <<env, openAtLogin, desktopFile, errorStats, host>>

\* AutostartManager._createLinuxDesktopFile: fs.writeFile(desktopFilePath) settles
WriteFile(c) ==
  /\ running = 0
  /\ calls[c].pc = "writeFile"
  /\ LET call == Log(calls[c], "write") IN
     \/ /\ desktopFile' = TRUE
        /\ Commit(c, Effect([call EXCEPT !.pc = "chmod"], lastError))
        /\ UNCHANGED faults
     \/ /\ CanFault
        /\ faults' = faults + 1
        /\ UNCHANGED desktopFile
        /\ \/ Commit(c, Effect([Fault(call) EXCEPT !.pc = "chmod"], lastError))
           \/ \E errno \in WriteFaults :
                Commit(c, ThrowAdapter(Rejected(Fault(call), "writeFile", errno),
                                       WriteErrorCode(errno)))
  /\ UNCHANGED <<env, openAtLogin, errorStats, host>>

\* AutostartManager._createLinuxDesktopFile: fs.chmod(desktopFilePath, 0o755)
\* settles; a failure is recorded and not thrown
Chmod(c) ==
  /\ running = 0
  /\ calls[c].pc = "chmod"
  /\ LET call == Log(calls[c], "write") IN
     \/ /\ Commit(c, Effect([call EXCEPT !.pc = "delay"], lastError))
        /\ UNCHANGED faults
     \/ /\ CanFault
        /\ faults' = faults + 1
        /\ Commit(c, Effect([Fault(call) EXCEPT !.pc = "delay"],
                            "LINUX_PERMISSION_SET_FAILED"))
  /\ UNCHANGED <<env, openAtLogin, desktopFile, errorStats, host>>

\* ENOENT is treated like any other unlink failure.
RemoveOutcome_StrictNotFound(res) ==
  IF res = "ok" THEN NoError
  ELSE UnlinkErrorCode(res)

\* AutostartManager._removeLinuxDesktopFile: what the catch block makes of the
\* result of fs.unlink ("ok" or an errno); NoError is a normal return
RemoveOutcome(res) ==
  IF res = "ok" THEN NoError
  ELSE IF res = "ENOENT" THEN NoError
  ELSE UnlinkErrorCode(res)

\* AutostartManager._removeLinuxDesktopFile: fs.unlink(desktopFilePath) settles.
\* The filesystem deletes the file (ENOENT when there is none), or reports
\* success without deleting, or fails with an errno.
_removeLinuxDesktopFile(c) ==
  /\ running = 0
  /\ calls[c].pc = "unlink"
  /\ LET call == Log(calls[c], "write")
         Settle(cl, res) ==
           LET cr == IF res = "ok" THEN cl ELSE Rejected(cl, "unlink", res) IN
             IF RemoveOutcome(res) = NoError
             THEN Commit(c, Effect([cr EXCEPT !.pc = "delay"], lastError))
             ELSE Commit(c, ThrowAdapter(cr, RemoveOutcome(res)))
     IN
     \/ /\ desktopFile' = FALSE
        /\ Settle(call, IF desktopFile THEN "ok" ELSE "ENOENT")
        /\ UNCHANGED faults
     \/ /\ CanFault
        /\ faults' = faults + 1
        /\ UNCHANGED desktopFile
        /\ \/ Settle(Fault(call), "ok")
           \/ \E errno \in UnlinkFaults : Settle(Fault(call), errno)
  /\ UNCHANGED <<env, openAtLogin, errorStats, host>>

\* The method returns after the write without verifying it.
VerifyDelay_Skipped(c) ==
  /\ running = 0
  /\ calls[c].pc = "delay"
  /\ Commit(c, Finish(calls[c], "returned",
                      IF calls[c].op = "toggle" THEN calls[c].want ELSE FALSE,
                      NoError, lastError))
  /\ UNCHANGED <<env, openAtLogin, desktopFile, errorStats, faults, host>>

\* AutostartManager._verifyAutostartSetting: the 500 ms timer fires and
\* isEnabled() starts (clearError, then the probe)
VerifyDelay(c) ==
  /\ running = 0
  /\ calls[c].pc = "delay"
  /\ Commit(c, Effect([calls[c] EXCEPT !.phase = "verify", !.pc = "probe"], NoError))
  /\ UNCHANGED <<env, openAtLogin, desktopFile, errorStats, faults, host>>

------------------------------------------------------------------------------
\* The catch block throws a wrapped error instead of the one it caught.
Rethrow_Wrapped(call, le) ==
  Finish(call, "threw", FALSE, "UNEXPECTED_ERROR",
         IF call.op = "toggle" THEN "UNEXPECTED_ERROR" ELSE le)

\* The error a failed enable()/disable()/toggle() leaves and throws: toggle's
\* own catch stores the error again before rethrowing it.
Rethrow(call, le) ==
  Finish(call, "threw", FALSE, call.err,
         IF call.op = "toggle" THEN call.err ELSE le)

\* AutostartManager.enable / disable: the catch block. The error is stored and
\* counted, attemptRecovery runs, and the error is thrown again.
Catch(c) ==
  /\ running = c
  /\ calls[c].pc = "catch"
  /\ LET code == calls[c].err
         call == Log(Log(calls[c], "record"), "recover")
         stats == _recordErrorStats(errorStats, code)
     IN IF RecoveryAction(code) = "linux_recovery"
        THEN /\ errorStats' = stats
             /\ Commit(c, Effect([call EXCEPT !.pc = "linuxRecovery"], code))
        ELSE \* guidance only: recoveryResult.success stays false
             /\ errorStats' = _recordRecoveryStats(stats, FALSE)
             /\ Commit(c, Rethrow(call, code))
  /\ UNCHANGED <<env, openAtLogin, desktopFile, faults, host>>

\* The sets of sub-steps _attemptLinuxRecovery can report as successful: the
\* permission fix and the write test run only after the autostart directory
\* was created.
RecoveryOutcomes ==
  {s \in SUBSET RecoverySteps :
     (s \cap {"perm", "write"} # {}) => "autostart" \in s}

\* The write test of the recovery leaves the desktop file behind.
LinuxRecovery_Registers(c) ==
  /\ running = 0
  /\ calls[c].pc = "linuxRecovery"
  /\ \E successful \in RecoveryOutcomes :
       LET call == Log(calls[c], "recoveryWrite") IN
         /\ desktopFile' = (desktopFile \/ "write" \in successful)
         /\ IF call.phase = "recovery"
            THEN /\ UNCHANGED errorStats
                 /\ Commit(c, RecoveryResult(call, successful # {}, lastError))
            ELSE /\ errorStats' = _recordRecoveryStats(errorStats, successful # {})
                 /\ Commit(c, Rethrow(call, lastError))
  /\ UNCHANGED <<env, openAtLogin, faults, host>>

\* AutostartManager._attemptLinuxRecovery settles inside attemptRecovery;
\* success = successful.length > 0
LinuxRecovery(c) ==
  /\ running = 0
  /\ calls[c].pc = "linuxRecovery"
  /\ \E successful \in RecoveryOutcomes :
       LET call == Log(calls[c], "recoveryWrite") IN
         IF call.phase = "recovery"
         THEN \* called directly: attemptRecovery returns its result
              /\ UNCHANGED errorStats
              /\ Commit(c, RecoveryResult(call, successful # {}, lastError))
         ELSE \* called by the catch block, which counts the outcome
              /\ errorStats' = _recordRecoveryStats(errorStats, successful # {})
              /\ Commit(c, Rethrow(call, lastError))
  /\ UNCHANGED <<env, openAtLogin, desktopFile, faults, host>>

------------------------------------------------------------------------------
\* A caller other than the settings window (the unit tests, a script) calls a
\* public method and later reads the outcome.
Call(c, op) ==
  /\ c <= MaxCalls
  /\ errorStats.totalErrors < MaxErrors
  /\ Invoke(c, op, "direct")
  /\ UNCHANGED host

Release(c) ==
  /\ running = c
  /\ calls[c].pc = "done"
  /\ calls[c].origin = "direct"
  /\ calls' = [calls EXCEPT ![c] = IdleCall]
  /\ running' = 0
  /\ UNCHANGED <<env, openAtLogin, desktopFile, lastError, errorStats, faults,
                 lastClean, host>>

\* One step of the manager for call c.
ManagerStep(c) ==
  \/ isPlatformSupported(c)
  \/ AccessHome(c)
  \/ AccessConfig(c)
  \/ AccessHomeAgain(c)
  \/ CheckElectronLoginItems(c)
  \/ CheckLinuxDesktopFile(c)
  \/ _setElectronLoginItems(c)
  \/ Mkdir(c)
  \/ WriteFile(c)
  \/ Chmod(c)
  \/ _removeLinuxDesktopFile(c)
  \/ VerifyDelay(c)
  \/ Catch(c)
  \/ LinuxRecovery(c)

Next ==
  \E c \in Calls :
    \/ \E op \in Ops : Call(c, op)
    \/ ManagerStep(c)
    \/ Release(c)

Spec == Init /\ [][Next]_vars

\* isEnabled() is called while an enable() or disable() is in flight.
StatusQuery ==
  /\ \E d \in 1..MaxCalls : Active(d) /\ calls[d].op \in {"enable", "disable"}
  /\ Invoke(Query, "isEnabled", "direct")
  /\ UNCHANGED host

\* Direct callers, one of which asks for the status during an operation.
OverlapNext ==
  \/ Next
  \/ StatusQuery

OverlapSpec == Init /\ [][OverlapNext]_vars

\* A caller that awaits each call before it makes the next one.
SerialCall(c, op) ==
  /\ c <= MaxCalls
  /\ \A d \in Calls : calls[d].pc = "idle"
  /\ errorStats.totalErrors < MaxFailures
  /\ Invoke(c, op, "direct")
  /\ UNCHANGED host

\* AutostartManager.attemptRecovery(error) called directly, up to its first
\* await; error.code = code and error.details.operation = retryOp
attemptRecovery(c, code, retryOp) ==
  /\ \A d \in Calls : calls[d].pc = "idle"
  /\ \A d \in Calls : d < c => calls[d].pc # "idle"
  /\ running = 0
  /\ errorStats.totalErrors < MaxFailures
  /\ LET call == [IdleCall EXCEPT !.op = "attemptRecovery", !.phase = "recovery",
                                  !.arg = code, !.retryOp = retryOp,
                                  !.startState = AutostartState,
                                  !.after = lastClean,
                                  !.statsBefore = errorStats]
         action == RecoveryAction(code)
     IN Commit(c,
          CASE action = "linux_recovery" ->
                 Effect([call EXCEPT !.pc = "linuxRecovery"], lastError)
            [] action = "verification_retry" ->
                 Effect([call EXCEPT !.pc = "retryWait"], lastError)
            [] action = "retry_operation" ->
                 Effect([call EXCEPT !.pc = "backoff"], lastError)
            [] action = "fallback_instructions" /\ platform = "linux" ->
                 Effect([call EXCEPT !.pc = "gather"], lastError)
            [] OTHER -> RecoveryResult(call, FALSE, lastError))
  /\ UNCHANGED <<env, openAtLogin, desktopFile, errorStats, faults, host>>

\* _retryVerification: the wait of one attempt is over and isEnabled() starts
RetryVerification(c) ==
  /\ running = 0
  /\ calls[c].pc = "retryWait"
  /\ Commit(c, Effect([calls[c] EXCEPT !.attempts = @ + 1, !.phase = "status",
                                       !.backoffTimes =
                                          Append(@, waitTime(calls[c].attempts)),
                                       !.pc = "probe"], NoError))
  /\ UNCHANGED <<env, openAtLogin, desktopFile, errorStats, faults, host>>

\* _retryWithBackoff: the backoff of one attempt is over and the operation
\* named by error.details.operation starts (isEnabled() when there is none)
RetryWithBackoff(c) ==
  /\ running = 0
  /\ calls[c].pc = "backoff"
  /\ LET call == calls[c] IN
       Commit(c, Effect([call EXCEPT !.attempts = @ + 1,
                                     !.backoffTimes =
                                        Append(@, backoffTime(call.attempts)),
                                     !.phase = IF call.retryOp = "none"
                                               THEN "status" ELSE "main",
                                     !.want = (call.retryOp = "enable"),
                                     !.pc = "probe"], NoError))
  /\ UNCHANGED <<env, openAtLogin, desktopFile, errorStats, faults, host>>

\* _gatherSystemInfo detects the platform again and stores what it finds.
GatherSystemInfo_Redetects(c) ==
  /\ running = 0
  /\ calls[c].pc = "gather"
  /\ Commit(c, RecoveryResult(calls[c], FALSE, lastError))
  /\ \E plat \in Platforms : platform' = plat
  /\ UNCHANGED <<apiAvailable, openAtLogin, desktopFile, errorStats, faults,
                 host>>

\* executeFallback on linux: _gatherSystemInfo's fs.access calls settle
GatherSystemInfo(c) ==
  /\ running = 0
  /\ calls[c].pc = "gather"
  /\ Commit(c, RecoveryResult(calls[c], FALSE, lastError))
  /\ UNCHANGED <<env, openAtLogin, desktopFile, errorStats, faults, host>>

RecoveryStep(c) ==
  \/ RetryVerification(c)
  \/ RetryWithBackoff(c)
  \/ GatherSystemInfo(c)

\* A serial caller that also calls attemptRecovery.
RecoveryNext ==
  \E c \in Calls :
    \/ \E op \in Ops : SerialCall(c, op)
    \/ \E code \in ErrorCodes, retryOp \in RetryOps :
         attemptRecovery(c, code, retryOp)
    \/ ManagerStep(c)
    \/ RecoveryStep(c)
    \/ Release(c)

RecoverySpec == Init /\ [][RecoveryNext]_vars

\* The event loop runs every timer that has expired and every callback of a
\* settled promise: a call that can take a step takes one.
RetrySpec ==
  RecoverySpec /\ WF_vars(\E c \in Calls : ManagerStep(c) \/ RecoveryStep(c))

\* The serial caller calls getPlatformMethod(): synchronous, it returns or
\* throws at once; it neither clears nor stores lastError.
CallGetPlatformMethod(c) ==
  /\ \A d \in Calls : calls[d].pc = "idle"
  /\ \A d \in Calls : d < c => calls[d].pc # "idle"
  /\ running = 0
  /\ LET answer == getPlatformMethod(platform)
         call == [IdleCall EXCEPT !.op = "getPlatformMethod",
                                  !.startState = AutostartState,
                                  !.after = lastClean,
                                  !.statsBefore = errorStats,
                                  !.method = answer.returns]
     IN calls' = [calls EXCEPT ![c] =
                    IF answer.throws = NoError
                    THEN End(call, "returned", FALSE, NoError, lastError).call
                    ELSE End(call, "threw", FALSE, answer.throws,
                             lastError).call]
  /\ running' = c
  /\ UNCHANGED <<env, openAtLogin, desktopFile, lastError, errorStats, faults,
                 lastClean, host>>

SerialNext ==
  \E c \in Calls :
    \/ \E op \in Ops : SerialCall(c, op)
    \/ CallGetPlatformMethod(c)
    \/ ManagerStep(c)
    \/ Release(c)

SerialSpec == Init /\ [][SerialNext]_vars

------------------------------------------------------------------------------
\* The settings window (src/settings.js) and the IPC handlers of the main
\* process.  A request is in `requests` from ipcRenderer.invoke until its
\* result reaches the window; the main process starts the handlers in the
\* order in which the requests were sent.

\* The manager method the handler of a request calls.
HandlerOp(request) ==
  CASE request.origin \in {"change", "save"} ->
         IF request.arg THEN "enable" ELSE "disable"
    [] request.origin = "displaySupport" -> "isPlatformSupported"
    [] request.origin = "displayStatus" -> "isEnabled"

\* ipcRenderer.invoke(channel, arg)
Request(origin, arg) ==
  [origin |-> origin, arg |-> arg, stage |-> "sent", call |-> 0,
   reply |-> "none", value |-> FALSE, code |-> NoError, stale |-> FALSE,
   detail |-> "none", method |-> "null", errorType |-> "null",
   unread |-> FALSE, state |-> FALSE]

CanSend == Len(requests) < MaxRequests

Remove(queue, r) == SubSeq(queue, 1, r - 1) \o SubSeq(queue, r + 1, Len(queue))

\* The window is destroyed: results that already arrived are dropped, the
\* requests still with the main process run on and their results are lost.
CloseWindow(queue) ==
  LET Pending(request) == request.stage # "replied"
      pending == SelectSeq(queue, Pending)
  IN [i \in 1..Len(pending) |-> [pending[i] EXCEPT !.stale = TRUE]]

\* What a handler resolves with ("success", "warning", "recovered") or
\* rejects with ("error").
Result(reply, value, code) ==
  [reply |-> reply, value |-> value, code |-> code, detail |-> "none",
   method |-> "null", errorType |-> "null", unread |-> FALSE]

\* The result of a request is ready in the main process and is sent to the
\* window. Results travel in the order they were sent: the results under way
\* are the head of the queue, the requests still with the main process
\* follow in the order they were made.
Answer(queue, r, result) ==
  LET Replied(request) == request.stage = "replied"
      Waiting(request) == request.stage # "replied"
      replied == [queue[r] EXCEPT !.stage = "replied", !.call = 0,
                                  !.reply = result.reply,
                                  !.value = result.value,
                                  !.code = result.code,
                                  !.detail = result.detail,
                                  !.method = result.method,
                                  !.errorType = result.errorType,
                                  !.unread = result.unread,
                                  \* the registration when the handler ends
                                  !.state = AutostartState]
  IN IF queue[r].stale THEN Remove(queue, r)
     ELSE SelectSeq(queue, Replied) \o <<replied>>
            \o SelectSeq(Remove(queue, r), Waiting)

\* createSettingsWindow, then DOMContentLoaded: loadCurrentSettings ->
\* displaySettings -> displayAutostartSettings asks for the platform support.
\* The markup of the window is not part of the sources: the checkbox starts
\* enabled or disabled.
OpenSettings ==
  /\ ~ui.open
  /\ CanSend
  /\ \E disabled \in BOOLEAN :
       ui' = [open |-> TRUE, checked |-> FALSE, disabled |-> disabled,
              notice |-> "none", last |-> NoResult]
  /\ requests' = Append(requests, Request("displaySupport", FALSE))
  /\ UNCHANGED <<env, openAtLogin, desktopFile, lastError, errorStats, calls,
                 running, faults, lastClean>>

\* resetSettings: displaySettings() runs again
ResetSettings ==
  /\ ui.open
  /\ CanSend
  /\ requests' = Append(requests, Request("displaySupport", FALSE))
  /\ UNCHANGED <<env, openAtLogin, desktopFile, lastError, errorStats, calls,
                 running, faults, lastClean, ui>>

\* The change listener of the autostart checkbox, up to its await: the user
\* flips the checkbox, the listener disables it, shows "(設定中...)" and
\* invokes set-autostart.
AutostartChange ==
  /\ ui.open
  /\ ~ui.disabled
  /\ CanSend
  /\ ui' = [ui EXCEPT !.checked = ~ui.checked, !.disabled = TRUE,
                      !.notice = "pending", !.last = NoResult]
  /\ requests' = Append(requests, Request("change", ~ui.checked))
  /\ UNCHANGED <<env, openAtLogin, desktopFile, lastError, errorStats, calls,
                 running, faults, lastClean>>

\* saveSettings, up to its await: set-autostart with the checkbox state
SaveSettings ==
  /\ ui.open
  /\ CanSend
  /\ requests' = Append(requests, Request("save", ui.checked))
  /\ UNCHANGED <<env, openAtLogin, desktopFile, lastError, errorStats, calls,
                 running, faults, lastClean, ui>>

\* The cancel button: window.close()
CancelSettings ==
  /\ ui.open
  /\ ui' = [ui EXCEPT !.open = FALSE, !.notice = "none", !.last = NoResult]
  /\ requests' = CloseWindow(requests)
  /\ UNCHANGED <<env, openAtLogin, desktopFile, lastError, errorStats, calls,
                 running, faults, lastClean>>

\* ipcMain.handle: the handler of the oldest waiting request starts and calls
\* the manager.
HandlerStart(r, c) ==
  /\ r \in 1..Len(requests)
  /\ requests[r].stage = "sent"
  /\ \A q \in 1..(r - 1) : requests[q].stage # "sent"
  /\ c <= MaxCalls
  /\ errorStats.totalErrors < MaxErrors
  /\ Invoke(c, HandlerOp(requests[r]), requests[r].origin)
  /\ requests' = [requests EXCEPT ![r] = [@ EXCEPT !.stage = "handling",
                                                   !.call = c]]
  /\ UNCHANGED ui

\* set-autostart after enable()/disable() returned: the warning of the result
SetAutostartResult(le) ==
  IF le # NoError /\ (le = "VERIFICATION_FAILED" \/ isRecoverable(le))
  THEN "warning"
  ELSE "success"

\* generateErrorReport inside the catch block of set-autostart: the results
\* the second attemptRecovery can lead to
ErrorReportResults(code) ==
  IF isRecoverable(code) /\ RecoveryAction(code) = "linux_recovery"
  THEN {"recovered", "error"}
  ELSE {"error"}

\* attemptRecovery: recoveryResult.fallbackAvailable
fallbackAvailable(code) ==
  RecoveryAction(code) \in {"permission_guidance", "fallback_instructions"}

\* set-autostart, the try block around generateErrorReport: it returns the
\* recovered result, or throws an Error that carries the recovery message or
\* the guidance, or falls through.
ErrorReportBlock(code, reply) ==
  IF reply = "recovered" THEN "return"
  ELSE IF isRecoverable(code) /\ fallbackAvailable(code) THEN "throwRecovery"
  ELSE IF requiresUserAction(code) THEN "throwGuidance"
  ELSE "fallThrough"

\* set-autostart, catch block: the result for an AutostartError. What the try
\* block around generateErrorReport throws is caught and logged by its own
\* catch (reportError), and `throw new Error(error.getUserMessage())` follows.
SetAutostartFailure(code, reply) ==
  IF ErrorReportBlock(code, reply) = "return"
  THEN Result("recovered", TRUE, code)
  ELSE [Result("error", FALSE, code) EXCEPT !.detail = "message"]

\* check-autostart-support: { supported, platform, method, error }
SupportInfo(supported, le) ==
  [Result("success", supported, le) EXCEPT
     !.method = IF supported THEN getPlatformMethod(platform).returns
                ELSE "null",
     !.errorType = IF supported \/ le = NoError THEN "null" ELSE "object"]

\* A get-autostart-status handler that rejects when the manager holds an
\* error after isEnabled().
HandlerResult_Rejects(call) ==
  CASE call.op \in {"enable", "disable"} ->
         Result(SetAutostartResult(call.errAtEnd), TRUE, call.errAtEnd)
    [] call.op = "isPlatformSupported" ->
         SupportInfo(call.result, call.errAtEnd)
    [] call.op = "isEnabled" ->
         [Result(IF call.errAtEnd = NoError THEN "success" ELSE "error",
                 call.result, call.errAtEnd) EXCEPT
            !.unread = call.readErr \/ call.probeFailed]

\* What the handler resolves with when the manager method returned.
HandlerResult(call) ==
  CASE call.op \in {"enable", "disable"} ->
         Result(SetAutostartResult(call.errAtEnd), TRUE, call.errAtEnd)
    [] call.op = "isPlatformSupported" ->
         SupportInfo(call.result, call.errAtEnd)
    [] call.op = "isEnabled" ->
         [Result("success", call.result, call.errAtEnd) EXCEPT
            !.unread = call.readErr \/ call.probeFailed]

\* The catch blocks of get-autostart-status (rejects with the message) and
\* of check-autostart-support (resolves unsupported, with the message).
HandlerFailure(call) ==
  IF call.op = "isPlatformSupported"
  THEN [Result("success", FALSE, call.thrown) EXCEPT !.errorType = "string"]
  ELSE [Result("error", FALSE, call.thrown) EXCEPT !.detail = "message"]

\* The manager call of a handler has ended and the handler goes on: it
\* returns its result, or (set-autostart on linux, after a throw) awaits the
\* error report first.
HandlerReply(r) ==
  /\ r \in 1..Len(requests)
  /\ requests[r].stage = "handling"
  /\ LET c == requests[r].call
         call == calls[c]
     IN /\ running = c
        /\ call.pc = "done"
        /\ calls' = [calls EXCEPT ![c] = IdleCall]
        /\ IF call.outcome = "returned"
           THEN requests' = Answer(requests, r, HandlerResult(call))
           ELSE IF call.op \notin {"enable", "disable"}
           THEN requests' = Answer(requests, r, HandlerFailure(call))
           ELSE IF platform = "linux"
           THEN requests' = [requests EXCEPT ![r] =
                               [@ EXCEPT !.stage = "reporting", !.call = 0,
                                         !.code = call.thrown]]
           ELSE \E reply \in ErrorReportResults(call.thrown) :
                  requests' = Answer(requests, r,
                                     SetAutostartFailure(call.thrown, reply))
  /\ running' = 0
  /\ UNCHANGED <<env, openAtLogin, desktopFile, lastError, errorStats, faults,
                 lastClean, ui>>

\* set-autostart on linux: generateErrorReport settles (_gatherSystemInfo and
\* attemptRecovery await the filesystem) and the handler returns or throws.
HandlerReport(r) ==
  /\ r \in 1..Len(requests)
  /\ requests[r].stage = "reporting"
  /\ running = 0
  /\ \E reply \in ErrorReportResults(requests[r].code) :
       requests' = Answer(requests, r,
                          SetAutostartFailure(requests[r].code, reply))
  /\ UNCHANGED <<env, openAtLogin, desktopFile, lastError, errorStats, calls,
                 running, faults, lastClean, ui>>

\* The change listener after its await: what the label shows. "alert" is the
\* blocking alert() of the catch block, followed by the label with a cross.
ChangeNotice(reply) ==
  CASE reply = "warning" -> "warning"
    [] reply = "recovered" -> "recovered"
    [] reply = "error" -> "alert"
    [] OTHER -> "ok"

\* AutostartError.getUserMessage: the kinds whose message holds the word
\* the change listener looks for first ('サポートされていません', then '権限',
\* then 'アクセス'; every message with 'アクセス' also holds '権限').
UserMessageWord(code) ==
  CASE code = "UNSUPPORTED_PLATFORM" -> "unsupported"
    [] code \in {"PERMISSION_DENIED", "ACCESS_DENIED",
                 "LINUX_DIR_CREATE_FAILED", "LINUX_FILE_WRITE_FAILED",
                 "LINUX_DESKTOP_CHECK_FAILED", "LINUX_PERMISSION_SET_FAILED",
                 "REGISTRY_ACCESS_FAILED", "LOGIN_ITEM_SET_FAILED"} ->
         "permission"
    [] OTHER -> "none"

\* What the alert of a failed set-autostart shows: the instructions the
\* message carries after '回復方法:', else (change listener only) the hints
\* the window itself adds for some words, else the message alone.
AlertText(origin, code, detail) ==
  IF origin = "change" /\ detail = "instructions" THEN "instructions"
  ELSE IF origin = "change" /\ UserMessageWord(code) # "none" THEN "hints"
  ELSE "message"

\* setTimeout in the change listener: the label returns to its text.
NoticeTimeout ==
  /\ ui.open
  /\ ui.notice \in {"ok", "warning", "recovered", "alert"}
  /\ ui' = [ui EXCEPT !.notice = "none", !.last = NoResult]
  /\ UNCHANGED <<env, openAtLogin, desktopFile, lastError, errorStats, calls,
                 running, faults, lastClean, requests>>

\* The oldest result under way reaches the window and the code after the
\* await of ipcRenderer.invoke runs.
Deliver ==
  /\ Len(requests) > 0
  /\ requests[1].stage = "replied"
  /\ LET request == requests[1]
         rest == Tail(requests)
         shown == [origin |-> request.origin, reply |-> request.reply,
                   arg |-> request.arg, code |-> request.code,
                   detail |-> IF request.reply = "error"
                              THEN AlertText(request.origin, request.code,
                                             request.detail)
                              ELSE "none"]
     IN CASE request.origin = "change" ->
               \* catch: checkbox.checked = originalState; finally: enabled again
               /\ ui' = [ui EXCEPT !.checked = IF request.reply = "error"
                                               THEN ~request.arg ELSE @,
                                   !.disabled = FALSE,
                                   !.notice = ChangeNotice(request.reply),
                                   !.last = shown]
               /\ requests' = rest
          [] request.origin = "save" ->
               IF request.reply = "error"
               THEN /\ requests' = rest
                    /\ ui' = [ui EXCEPT !.notice = "alert", !.last = shown]
               ELSE \* the result is not looked at: update-settings, then
                    \* window.close()
                    /\ ui' = [ui EXCEPT !.open = FALSE, !.notice = "none",
                                        !.last = shown]
                    /\ requests' = CloseWindow(rest)
          [] request.origin = "displaySupport" ->
               IF request.value
               THEN /\ requests' = Append(rest, Request("displayStatus", FALSE))
                    /\ UNCHANGED ui
               ELSE /\ ui' = [ui EXCEPT !.checked = FALSE, !.disabled = TRUE,
                                        !.notice = "unsupported",
                                        !.last = NoResult]
                    /\ requests' = rest
          [] request.origin = "displayStatus" ->
               /\ ui' = [ui EXCEPT !.checked = request.value,
                                   !.disabled = FALSE, !.last = NoResult]
               /\ requests' = rest
  /\ UNCHANGED <<env, openAtLogin, desktopFile, lastError, errorStats, calls,
                 running, faults, lastClean>>

HostNext ==
  \/ OpenSettings
  \/ ResetSettings
  \/ AutostartChange
  \/ SaveSettings
  \/ CancelSettings
  \/ NoticeTimeout
  \/ Deliver
  \/ \E r \in 1..MaxRequests :
       \/ \E c \in Calls : HandlerStart(r, c)
       \/ HandlerReply(r)
       \/ HandlerReport(r)
  \/ \E c \in Calls : ManagerStep(c)

HostSpec == Init /\ [][HostNext]_vars

------------------------------------------------------------------------------
\* Reading a call's trace
Positions(trace, event) == {i \in 1..Len(trace) : trace[i] = event}

Occurs(trace, event) == Positions(trace, event) # {}

Last(trace, event) ==
  IF Occurs(trace, event)
  THEN CHOOSE i \in Positions(trace, event) :
         \A j \in Positions(trace, event) : j <= i
  ELSE 0

StateChanging == {"enable", "disable", "toggle"}

\* Autostart can be managed: a supported platform whose login-item API exists.
Manageable == platform \in supportedPlatforms /\ apiAvailable

\* C1: on a supported platform whose OS layer stores what is written, an
\* isEnabled() that follows a completed enable() returns true, and one that
\* follows a completed disable() returns false.
C1_RoundTrip ==
  \A c \in Calls :
    (Finished(c) /\ calls[c].op = "isEnabled" /\ calls[c].clean /\ Manageable)
      => /\ calls[c].outcome = "returned"
         /\ calls[c].after = "enable" => calls[c].result = TRUE
         /\ calls[c].after = "disable" => calls[c].result = FALSE

C1_Witness ==
  \E c \in Calls :
    /\ Finished(c) /\ calls[c].op = "isEnabled" /\ calls[c].clean
    /\ platform = "linux"
    /\ calls[c].after = "enable"
    /\ calls[c].result = TRUE

\* C2: enable() on an enabled autostart and disable() on a disabled one return
\* normally, leave the state as it was and record no error.
C2_Idempotent ==
  \A c \in Calls :
    (Finished(c) /\ calls[c].clean /\ Manageable)
      => /\ (calls[c].op = "enable" /\ calls[c].startState)
               => /\ calls[c].outcome = "returned"
                  /\ calls[c].errAtEnd = NoError
                  /\ AutostartState
         /\ (calls[c].op = "disable" /\ ~calls[c].startState)
               => /\ calls[c].outcome = "returned"
                  /\ calls[c].errAtEnd = NoError
                  /\ ~AutostartState

C2_Witness ==
  \E c \in Calls :
    /\ Finished(c) /\ calls[c].clean
    /\ platform = "linux"
    /\ calls[c].op = "disable" /\ calls[c].after = "disable"
    /\ ~calls[c].startState
    /\ calls[c].outcome = "returned"

\* C3: an enable()/disable() that returns normally has made its verification
\* read after its last adapter write.
C3_VerifyBeforeReturn ==
  \A c \in Calls :
    (Finished(c) /\ calls[c].op \in StateChanging /\ calls[c].outcome = "returned")
      => /\ Occurs(calls[c].trace, "write")
         /\ Last(calls[c].trace, "write") < Last(calls[c].trace, "verifyRead")
         /\ calls[c].clean
              => /\ Last(calls[c].trace, "write") < Last(calls[c].trace, "read")
                 /\ Last(calls[c].trace, "read") < Last(calls[c].trace, "verifyRead")

C3_Witness ==
  \E c \in Calls :
    /\ Finished(c) /\ calls[c].op = "disable" /\ calls[c].outcome = "returned"
    /\ Occurs(calls[c].trace, "write")
    /\ Last(calls[c].trace, "write") < Last(calls[c].trace, "verifyRead")

\* C4: a verification mismatch leaves VERIFICATION_FAILED as the last error,
\* the call returns without throwing, and no write follows the verification.
C4_MismatchIsWarning ==
  \A c \in Calls :
    (Finished(c) /\ calls[c].op \in StateChanging /\ calls[c].verified = "fail")
      => /\ calls[c].outcome = "returned"
         /\ calls[c].errAtEnd = "VERIFICATION_FAILED"
         /\ lastError = "VERIFICATION_FAILED"
         /\ Last(calls[c].trace, "write") < Last(calls[c].trace, "verifyRead")
         /\ ~Occurs(calls[c].trace, "record")

C4_Witness ==
  \E c \in Calls :
    /\ Finished(c) /\ calls[c].op = "enable" /\ calls[c].verified = "fail"
    /\ calls[c].errAtEnd = "VERIFICATION_FAILED"
    /\ calls[c].outcome = "returned"

\* The kinds the manager treats as warnings, and the recoverable kinds.
WarningClass ==
  {"VERIFICATION_FAILED", "LINUX_PERMISSION_SET_FAILED"}
    \cup {k \in ErrorCodes : isRecoverable(k)}

\* C5: a call of enable(), disable() or toggle() that no other call overlaps
\* ends (a) returned, verified, with no last error, or (b) returned with only
\* a warning-class error as the last error, or (c) by throwing an AutostartError.
C5_ThreeOutcomes ==
  \A c \in Calls :
    (Finished(c) /\ calls[c].op \in StateChanging /\ ~calls[c].overlap)
      => \/ /\ calls[c].outcome = "returned"
            /\ calls[c].verified = "pass"
            /\ calls[c].errAtEnd = NoError
         \/ /\ calls[c].outcome = "returned"
            /\ calls[c].errAtEnd \in WarningClass
         \/ /\ calls[c].outcome = "threw"
            /\ calls[c].thrown \in ErrorCodes

C7_Toggle ==
  \A c \in Calls :
    (Finished(c) /\ calls[c].op = "toggle" /\ calls[c].clean /\ Manageable)
      => /\ calls[c].outcome = "returned"
         /\ calls[c].result = ~calls[c].startState
         /\ AutostartState = calls[c].result

C7_Witness ==
  \E c \in Calls :
    /\ Finished(c) /\ calls[c].op = "toggle" /\ calls[c].clean
    /\ calls[c].after = "toggle"
    /\ calls[c].startState
    /\ calls[c].result = FALSE
    /\ ~AutostartState

\* C8: isEnabled() never throws; on an unrecognised platform it answers false
\* and leaves UNSUPPORTED_PLATFORM, and an adapter read error is answered
\* with false and left as the last error.
C8_IsEnabledNeverThrows ==
  \A c \in Calls :
    (Finished(c) /\ calls[c].op = "isEnabled")
      => /\ calls[c].outcome = "returned"
         /\ platform \notin supportedPlatforms
              => /\ calls[c].result = FALSE
                 /\ calls[c].errAtEnd = "UNSUPPORTED_PLATFORM"
         /\ calls[c].readErr
              => /\ calls[c].result = FALSE
                 /\ calls[c].errAtEnd \in
                      {"LOGIN_ITEM_CHECK_FAILED", "LINUX_DESKTOP_CHECK_FAILED"}

C8_Witness ==
  \E c \in Calls :
    /\ Finished(c) /\ calls[c].op = "isEnabled"
    /\ calls[c].readErr
    /\ calls[c].result = FALSE
    /\ calls[c].errAtEnd = "LOGIN_ITEM_CHECK_FAILED"

\* The error isPlatformSupported() records when it answers false.
ProbeError ==
  IF platform \notin supportedPlatforms THEN "UNSUPPORTED_PLATFORM"
  ELSE IF platform \in LoginItemPlatforms THEN "ELECTRON_API_UNAVAILABLE"
  ELSE "PERMISSION_DENIED"

\* C9: when the probe of enable()/disable() answers false, the call issues no
\* write to the OS layer and throws the error the probe recorded.
C9_NoWriteWhenUnsupported ==
  \A c \in Calls :
    (calls[c].op \in StateChanging /\ calls[c].mainProbe = "failed")
      => /\ ~Occurs(calls[c].trace, "write")
         /\ ~Occurs(calls[c].trace, "recoveryWrite")
         /\ calls[c].pc \in {"catch", "done"}
         /\ Finished(c) => /\ calls[c].outcome = "threw"
                           /\ calls[c].thrown = ProbeError

C9_Witness ==
  \E c \in Calls :
    /\ Finished(c) /\ calls[c].op = "enable" /\ calls[c].mainProbe = "failed"
    /\ platform = "linux"
    /\ calls[c].thrown = "PERMISSION_DENIED"

\* The set-autostart requests of the open window whose result has not arrived.
ChangesInFlight ==
  {r \in 1..Len(requests) :
     /\ requests[r].origin \in {"change", "save"}
     /\ ~requests[r].stale
     /\ requests[r].stage \in {"sent", "handling", "reporting"}}

\* C10: the settings window never has two set-autostart requests in flight at
\* the same time.
C10_OneChangeInFlight == Cardinality(ChangesInFlight) <= 1

C12_RecoveryNeverThrows ==
  \A c \in Calls :
    (Finished(c) /\ calls[c].op = "attemptRecovery")
      => /\ calls[c].outcome = "returned"
         /\ calls[c].thrown = NoError
         /\ calls[c].result \in BOOLEAN

C12_Witness ==
  \E c \in Calls :
    /\ Finished(c) /\ calls[c].op = "attemptRecovery"
    /\ calls[c].arg = "TEMPORARY_FAILURE" /\ calls[c].retryOp = "enable"
    /\ calls[c].attempts = maxAttempts
    /\ calls[c].err \in ErrorCodes
    /\ calls[c].result = FALSE

\* C13: when enable()/disable() ends with only a VERIFICATION_FAILED warning,
\* set-autostart resolves with success = true and the warning, and the
\* settings window that receives this result keeps the requested checkbox
\* value and shows the warning as a notice that does not block.
C13_WarningShown ==
  /\ \A r \in 1..Len(requests) :
       (/\ requests[r].stage = "replied"
        /\ requests[r].origin \in {"change", "save"}
        /\ requests[r].code = "VERIFICATION_FAILED")
         => requests[r].reply = "warning" /\ requests[r].value
  /\ (ui.last.reply = "warning" /\ ui.last.code = "VERIFICATION_FAILED")
       => /\ ui.notice = "warning"
          /\ ui.open
          /\ ui.checked = ui.last.arg

\* C14: a set-autostart request that fails with a kind that requires user
\* action reaches the settings window as a failure that carries the message
\* of the kind together with the step-by-step instructions produced by
\* attemptRecovery / generateErrorReport.
C14_InstructionsDelivered ==
  /\ \A r \in 1..Len(requests) :
       (/\ requests[r].stage = "replied"
        /\ requests[r].origin \in {"change", "save"}
        /\ requests[r].reply = "error"
        /\ requiresUserAction(requests[r].code))
         => requests[r].detail = "instructions"
  /\ (ui.last.reply = "error" /\ requiresUserAction(ui.last.code))
       => ui.last.detail = "instructions"

\* C15: a get-autostart-status request never fails: it resolves with a
\* boolean, and with false whenever the state could not be read (the
\* platform is not supported, the adapter is missing or the read failed).
C15_StatusNeverFails ==
  \A r \in 1..Len(requests) :
    (requests[r].stage = "replied" /\ requests[r].origin = "displayStatus")
      => /\ requests[r].reply = "success"
         /\ requests[r].value \in BOOLEAN
         /\ requests[r].unread => ~requests[r].value

C15_Witness ==
  \E r \in 1..Len(requests) :
    /\ requests[r].stage = "replied"
    /\ requests[r].origin = "displayStatus"
    /\ requests[r].reply = "success"
    /\ requests[r].unread
    /\ requests[r].code # NoError
    /\ ~requests[r].value

\* C16: check-autostart-support always resolves with {supported, platform,
\* method, error}: when supported, method is the method of the platform and
\* error is null; when not supported, method is null and error is a message
\* string.
C16_SupportInfo ==
  \A r \in 1..Len(requests) :
    (requests[r].stage = "replied" /\ requests[r].origin = "displaySupport")
      => /\ requests[r].reply = "success"
         /\ requests[r].value
              => /\ requests[r].method \in {"loginItems", "registry", "desktop"}
                 /\ requests[r].method = getPlatformMethod(platform).returns
                 /\ requests[r].errorType = "null"
         /\ ~requests[r].value
              => /\ requests[r].method = "null"
                 /\ requests[r].errorType = "string"

\* Call c takes the step.
Stepped(c) ==
  \/ calls'[c].pc # calls[c].pc
  \/ calls'[c].trace # calls[c].trace

\* C17: no step of an isPlatformSupported() call writes, creates or deletes
\* anything in the OS layer or touches the statistics, on any platform and
\* for any outcome of the probe: of the manager's state only lastError
\* changes.
C17_ProbeMutatesNothing ==
  [][\A c \in Calls :
       (calls[c].op = "isPlatformSupported" /\ Stepped(c))
         => /\ openAtLogin' = openAtLogin
            /\ desktopFile' = desktopFile
            /\ errorStats' = errorStats
            /\ UNCHANGED env]_vars

C17_Witness ==
  \E c \in Calls :
    /\ Finished(c)
    /\ calls[c].op = "isPlatformSupported"
    /\ platform = "linux"
    /\ ~desktopFile
    /\ Occurs(calls[c].trace, "probe")
    /\ calls[c].result

\* C18: lastError is one slot that every public operation clears when it
\* starts, so when an enable() or disable() that no other call overlaps
\* returns with its verification passed, getLastError() is null, whatever
\* error earlier operations left in the slot.
C18_SlotClearedOnSuccess ==
  \A c \in Calls :
    (/\ Finished(c)
     /\ calls[c].op \in {"enable", "disable"}
     /\ ~calls[c].overlap
     /\ calls[c].outcome = "returned"
     /\ calls[c].verified = "pass")
      => calls[c].errAtEnd = NoError

\* C19: getPlatformMethod() returns 'loginItems' on darwin, 'registry' on
\* win32 and 'desktop' on linux without throwing, and throws
\* UNSUPPORTED_PLATFORM on every other platform.
C19_PlatformMethod ==
  \A c \in Calls :
    (Finished(c) /\ calls[c].op = "getPlatformMethod")
      => LET returned(method) == /\ calls[c].outcome = "returned"
                                 /\ calls[c].thrown = NoError
                                 /\ calls[c].method = method
         IN /\ platform = "darwin" => returned("loginItems")
            /\ platform = "win32" => returned("registry")
            /\ platform = "linux" => returned("desktop")
            /\ platform \notin {"darwin", "win32", "linux"}
                 => /\ calls[c].outcome = "threw"
                    /\ calls[c].thrown = "UNSUPPORTED_PLATFORM"

C19_Witness ==
  \E c \in Calls :
    /\ Finished(c)
    /\ calls[c].op = "getPlatformMethod"
    /\ platform = "freebsd"
    /\ calls[c].thrown = "UNSUPPORTED_PLATFORM"
    /\ errorStats.totalErrors > 0

\* C20: the platform of a manager, and with it the method getPlatformMethod()
\* answers, is fixed at construction: no operation, failure or recovery step
\* changes it.
C20_PlatformFixed ==
  [][/\ platform' = platform
     /\ getPlatformMethod(platform') = getPlatformMethod(platform)]_vars

C20_Witness ==
  \E c \in Calls :
    /\ Finished(c)
    /\ calls[c].op = "attemptRecovery"
    /\ calls[c].arg = "UNSUPPORTED_PLATFORM"
    /\ platform = "linux"
    /\ errorStats.totalErrors > 0

\* The kind C21 names for an error of the login-item setter that has no
\* permission or access wording.
PlatformSetError ==
  IF platform = "darwin" THEN "MACOS_LOGIN_ITEM_FAILED"
  ELSE "REGISTRY_ACCESS_FAILED"

C22_RecoveryOnlyForRecoverable ==
  \A c \in Calls :
    (/\ Finished(c)
     /\ calls[c].op \in StateChanging
     /\ ~calls[c].overlap
     /\ calls[c].outcome = "threw"
     /\ ~isRecoverable(calls[c].thrown))
      => /\ ~Occurs(calls[c].trace, "recover")
         /\ errorStats.recoveryAttempts = calls[c].statsBefore.recoveryAttempts

\* C23: for a PERMISSION_DENIED error attemptRecovery reports success exactly
\* when the manual-fix instructions were generated, whether or not the
\* permission is fixed, and it attempts no fix itself (the OS layer is left
\* as it was).
C23_GuidanceIsSuccess ==
  \A c \in Calls :
    (/\ Finished(c)
     /\ calls[c].op = "attemptRecovery"
     /\ calls[c].arg = "PERMISSION_DENIED")
      => /\ calls[c].result = (RecoveryMessage(calls[c].arg) = "instructions")
         /\ ~Occurs(calls[c].trace, "write")
         /\ ~Occurs(calls[c].trace, "recoveryWrite")
         /\ AutostartState = calls[c].startState

\* C24: when set-autostart(enabled) resolves with success = true and no
\* warning, the registration equals `enabled` at that moment; a write that
\* failed is never reported to the settings window as a success.
C24_SuccessMeansApplied ==
  \A r \in 1..Len(requests) :
    (/\ requests[r].stage = "replied"
     /\ requests[r].origin \in {"change", "save"}
     /\ requests[r].reply \in {"success", "recovered"})
      => requests[r].state = requests[r].arg

\* C25: an isEnabled() that overlaps an enable() or disable() in flight does
\* not alter what the operation reports. An operation that met no failure of
\* its own returns with no last error; one that threw leaves the error it
\* threw as last error; one whose verification found a mismatch leaves the
\* VERIFICATION_FAILED warning.
C25_QueryDoesNotInterfere ==
  \A c \in 1..MaxCalls :
    (Finished(c) /\ calls[c].op \in {"enable", "disable"})
      => /\ (Manageable /\ ~calls[c].faulted)
              => /\ calls[c].outcome = "returned"
                 /\ calls[c].errAtEnd = NoError
         /\ calls[c].outcome = "threw"
              => calls[c].errAtEnd = calls[c].thrown
         /\ calls[c].verified = "fail"
              => calls[c].errAtEnd = "VERIFICATION_FAILED"

\* C26: on linux, enable() whose creation of the autostart directory was
\* rejected with EACCES throws PERMISSION_DENIED, and with ENOSPC throws
\* DISK_FULL; disable() whose deletion was rejected with EBUSY throws
\* FILE_IN_USE, and with ENOENT does not throw.
C26_ErrnoClassified ==
  \A c \in 1..MaxCalls :
    (Finished(c) /\ platform = "linux")
      => LET call == calls[c] IN
         /\ (call.op = "enable" /\ call.rejected = [syscall |-> "mkdir", code |-> "EACCES"])
              => call.outcome = "threw" /\ call.thrown = "PERMISSION_DENIED"
         /\ (call.op = "enable" /\ call.rejected = [syscall |-> "mkdir", code |-> "ENOSPC"])
              => call.outcome = "threw" /\ call.thrown = "DISK_FULL"
         /\ (call.op = "disable" /\ call.rejected = [syscall |-> "unlink", code |-> "EBUSY"])
              => call.outcome = "threw" /\ call.thrown = "FILE_IN_USE"
         /\ (call.op = "disable" /\ call.rejected = [syscall |-> "unlink", code |-> "ENOENT"])
              => call.outcome = "returned"

C26_Witness ==
  /\ platform = "linux"
  /\ Finished(1)
  /\ calls[1].op = "disable"
  /\ calls[1].rejected = [syscall |-> "unlink", code |-> "EBUSY"]
  /\ calls[1].thrown = "FILE_IN_USE"

\* C27: every run of the Recovery Engine is counted. When a call in which
\* attemptRecovery ran has finished, recoveryAttempts is one more than when
\* the call began, and successfulRecoveries is one more exactly when the run
\* reported success.
C27_EveryRecoveryCounted ==
  \A c \in 1..MaxCalls :
    (Finished(c) /\ (calls[c].op = "attemptRecovery" \/ Occurs(calls[c].trace, "recover")))
      => LET before == calls[c].statsBefore
             gained == errorStats.successfulRecoveries - before.successfulRecoveries
         IN /\ errorStats.recoveryAttempts = before.recoveryAttempts + 1
            /\ gained \in {0, 1}
            /\ calls[c].op = "attemptRecovery"
                 => (gained = 1) = calls[c].result

RetryKinds == {"VERIFICATION_FAILED", "TEMPORARY_FAILURE"}

DelayCap(code) == IF code = "VERIFICATION_FAILED" THEN 5000 ELSE 8000

\* What holds of a retry loop at every moment: no more than maxAttempts
\* attempts; an attempt begins only when the one before it has ended, and
\* only if that one failed; the first delay is one second and each later one
\* is twice the delay before it, or the cap; the loop ends at a success or
\* with the last attempt, and reports success exactly when it ended at one.
RetryBounded ==
  \A c \in 1..MaxCalls :
    (calls[c].op = "attemptRecovery" /\ calls[c].arg \in RetryKinds)
      => LET call == calls[c]
             n == call.attempts
             times == call.backoffTimes
             ended == call.succeeded
         IN /\ n <= maxAttempts
            /\ Len(times) = n
            /\ \A i \in 1..n :
                 times[i] = IF i = 1 THEN 1000
                            ELSE IF 2 * times[i - 1] < DelayCap(call.arg)
                                 THEN 2 * times[i - 1]
                                 ELSE DelayCap(call.arg)
            /\ Len(ended) \in {n - 1, n} \cap Nat
            /\ \A i \in 1..Len(ended) : ended[i] => i = n
            /\ Finished(c)
                 => /\ n >= 1
                    /\ Len(ended) = n
                    /\ call.result = ended[n]
                    /\ ended[n] \/ n = maxAttempts

\* C28: each retry loop of the Recovery Engine makes at most 3 attempts, one
\* after another with a doubling, capped delay, stops at the first attempt
\* that succeeds, and recovery always terminates.
C28_RetryTerminates ==
  /\ []RetryBounded
  /\ \A c \in 1..MaxCalls :
       (calls[c].op = "attemptRecovery" /\ Active(c)) ~> Finished(c)

C28_Witness ==
  /\ Finished(1)
  /\ calls[1].op = "attemptRecovery"
  /\ calls[1].arg = "TEMPORARY_FAILURE"
  /\ calls[1].attempts = 2
  /\ calls[1].succeeded = <<FALSE, TRUE>>
  /\ calls[1].backoffTimes = <<1000, 2000>>

RECURSIVE SumOver(_, _)
SumOver(counts, codes) ==
  IF codes = {} THEN 0
  ELSE LET k == CHOOSE x \in codes : TRUE
       IN counts[k] + SumOver(counts, codes \ {k})

\* C29: at every moment totalErrors is the sum of the errorsByCode counts, and
\* successfulRecoveries <= recoveryAttempts <= totalErrors.
C29_StatsConsistent ==
  /\ errorStats.totalErrors = SumOver(errorStats.errorsByCode, ErrorCodes)
  /\ errorStats.successfulRecoveries <= errorStats.recoveryAttempts
  /\ errorStats.recoveryAttempts <= errorStats.totalErrors

C29_Witness ==
  /\ errorStats.totalErrors = 2
  /\ errorStats.recoveryAttempts = 1
  /\ errorStats.successfulRecoveries = 1
  /\ \E c \in 1..MaxCalls : calls[c].pc = "linuxRecovery"

\* C30: recovery never changes the autostart state. No step of an
\* attemptRecovery call for a kind other than TEMPORARY_FAILURE, and no step
\* of the recovery run by a catch block, changes the login item or the
\* desktop file.
C30_RecoveryKeepsState ==
  [][\A c \in 1..MaxCalls :
       (\/ /\ calls'[c].op = "attemptRecovery"
           /\ calls'[c].arg # "TEMPORARY_FAILURE"
        \/ calls[c].pc = "linuxRecovery")
         => /\ openAtLogin' = openAtLogin
            /\ desktopFile' = desktopFile]_vars

C30_Witness ==
  /\ platform = "linux"
  /\ ~desktopFile
  /\ Finished(1)
  /\ calls[1].op = "attemptRecovery"
  /\ calls[1].arg = "LINUX_FILE_WRITE_FAILED"
  /\ calls[1].result
  /\ Occurs(calls[1].trace, "recoveryWrite")

====
